---- MODULE Spec2Model ----
(***************************************************************************)
(* A model of xo-rl-js: the tic-tac-toe rules engine (src/game.js), the     *)
(* learning agents (agent.js: key lookup, epsilon-greedy policy, the       *)
(* Monte-Carlo and the Q-learning learner) and the driver of an episode    *)
(* (main.js).                                                              *)
(*                                                                         *)
(* JavaScript arrays are 0-based, TLA+ sequences 1-based: cell i of a      *)
(* board is element i + 1 of the sequence that models it.                  *)
(***************************************************************************)
EXTENDS Integers, Sequences, FiniteSets, TLC

VARIABLES
    state,          \* TicTacToe.state: the live board, 9 cells
    currentPlayer,  \* TicTacToe.currentPlayer
    stateHistory,   \* TicTacToe.stateHistory: snapshots of the board
    actionHistory,  \* TicTacToe.actionHistory: the accepted move indices
    called,         \* the last method the caller invoked ("" before any call)
    error,          \* the error that call raised ("" when it returned)
    board,          \* the board the last checkTermination() call read
    outcome,        \* the value that checkTermination() call returned
    Q,              \* Agent.Q: the action-value table, key -> value
    qState,         \* the state argument of the last getKey() call
    qAction,        \* the action argument of the last getKey() call
    key,            \* the key that getKey() call returned
    countQ,         \* Agent.countQ: key -> number of returns averaged
    player,         \* Agent.player: the agent's token
    epsilon,        \* EpsilonGreedyAgent's this.epsilon
    discount,       \* MonteCarloAgent.discount
    defaultQ,       \* Agent.defaultQ
    rewards,        \* MonteCarloAgent.rewards: the rewards of the episode
    ret,            \* the value the last policy() call returned
    log,            \* the xoLog lines of the last learn() call
    playerChoice,   \* GameHandler.playerChoice: the user's token
    loopI,          \* i of the loop of learn() while it runs
    loopJ,          \* j of that loop
    totalReward,    \* totalReward of that loop
    alpha,          \* QLearningAgent.alpha
    storeEpsilon,   \* storeEpsilon of QLearningAgent.learn() while it runs
    updatePlayer,   \* the playerChoice argument of updateQ() while it runs
    pc,             \* where the driver stands inside its running handler
    episodes,       \* how many times resetGame() has run
    detours,        \* how many inputs of the session left the beaten track
    learnt          \* how many learn() calls the episode has made on a
                    \* finished game

vars == <<state, currentPlayer, stateHistory, actionHistory, called, error,
          board, outcome, Q, qState, qAction, key, countQ, player, epsilon,
          discount, defaultQ, rewards, ret, log, playerChoice, loopI, loopJ,
          totalReward, alpha, storeEpsilon, updatePlayer, pc, episodes,
          detours, learnt>>

boardVars == <<board, outcome>>

\* The fields of the agent besides Q, and what the driver and the log hold.
fieldVars == <<countQ, player, epsilon, discount, defaultQ, rewards, ret, log,
               playerChoice, loopI, loopJ, totalReward, alpha, storeEpsilon,
               updatePlayer>>

\* What only a QLearningAgent has.
qFields == <<alpha, storeEpsilon, updatePlayer>>

\* The position of the driver and the counters that bound a session.
driverVars == <<pc, episodes, detours, learnt>>

agentVars == <<Q, qState, qAction, key, fieldVars>>

gameVars == <<state, currentPlayer, stateHistory, actionHistory>>

----------------------------------------------------------------------------
(* Bounds of the model. *)

\* move() is called with every index from -MoveMargin to 8 + MoveMargin.
MoveMargin == 1

\* An episode opens at one of the first MaxOpenings cells of Openings.
MaxOpenings == 2

\* getKey() is called on the boards the game reaches within MaxTokens plies.
MaxTokens == 2

\* policy() is called with at most MaxEntries keys in the table.
MaxEntries == 2

\* The learner averages at most MaxReturns returns under one key.
MaxReturns == 3

\* A session of the driver runs resetGame() at most MaxResets times.
MaxResets == 1

\* In a session at most MaxDetours inputs leave the beaten track: a move, of
\* the user or of the computer, to the second legal cell instead of the
\* first, or a change of the hyperparameters.
MaxDetours == 2

\* The greatest count of quarter turns a composition of rot90 is checked for.
MaxTurns == 4

\* The detours a session of SpecRange has on top of MaxDetours.
RangeDetours == 2

----------------------------------------------------------------------------
(* src/game.js *)

\* JavaScript's null, undefined and NaN, where the code has a number.
null == 0 - 1

undefined == 0 - 2

NaN == 0 - 3

nll == "_"

Tokens == {"X", "O"}

Cells == {nll} \cup Tokens

emptyBoard == <<nll, nll, nll, nll, nll, nll, nll, nll, nll>>

unroll(row, col) == row * 3 + col

roll(index) == [row |-> index \div 3, col |-> index % 3]

\* toActionArray(index): a one-hot board, 'A' at the action, null elsewhere.
toActionArray(index) == [k \in 1..9 |-> IF k = index + 1 THEN "A" ELSE "null"]

\* toActionIndex(actionArray): the first index whose element is not null.
RECURSIVE firstNonNull(_, _)
firstNonNull(actionArray, index) ==
    IF index >= Len(actionArray) THEN null
    ELSE IF actionArray[index + 1] # "null" THEN index
    ELSE firstNonNull(actionArray, index + 1)

toActionIndex(actionArray) == firstNonNull(actionArray, 0)

\* n % 4 in JavaScript, for the n the code passes: a count >= 0, or nothing.
jsRem4(n) == IF n = undefined THEN NaN ELSE n % 4

\* A rot90 whose third branch transposes the board.
rot90_transposesForThree(st, n) ==
    IF jsRem4(n) = 0 THEN st
    ELSE IF jsRem4(n) = 1 THEN
        <<st[7], st[4], st[1],
          st[8], st[5], st[2],
          st[9], st[6], st[3]>>
    ELSE IF jsRem4(n) = 2 THEN
        <<st[9], st[8], st[7],
          st[6], st[5], st[4],
          st[3], st[2], st[1]>>
    ELSE IF jsRem4(n) = 3 THEN
        <<st[1], st[4], st[7],
          st[2], st[5], st[8],
          st[3], st[6], st[9]>>
    ELSE <<>>

\* rot90(state, n): no branch is taken when n % 4 is NaN, and the empty
\* newState is returned.
rot90(st, n) ==
    IF jsRem4(n) = 0 THEN st
    ELSE IF jsRem4(n) = 1 THEN
        <<st[7], st[4], st[1],
          st[8], st[5], st[2],
          st[9], st[6], st[3]>>
    ELSE IF jsRem4(n) = 2 THEN
        <<st[9], st[8], st[7],
          st[6], st[5], st[4],
          st[3], st[2], st[1]>>
    ELSE IF jsRem4(n) = 3 THEN
        <<st[3], st[6], st[9],
          st[2], st[5], st[8],
          st[1], st[4], st[7]>>
    ELSE <<>>

\* mirror(state): newState[unroll(i, 2 - j)] = state[unroll(i, j)].
mirror(st) ==
    [k \in 1..9 |-> st[unroll(roll(k - 1).row, 2 - roll(k - 1).col) + 1]]

\* A scan that forgets the columns.
RECURSIVE rowColScan_rowsOnly(_, _)
rowColScan_rowsOnly(st, i) ==
    IF i = 3 THEN ""
    ELSE LET rowX == \A j \in 0..2 : st[unroll(i, j) + 1] = "X"
             rowO == \A j \in 0..2 : st[unroll(i, j) + 1] = "O"
         IN  IF rowX THEN "X"
             ELSE IF rowO THEN "O"
             ELSE rowColScan_rowsOnly(st, i + 1)

\* checkTermination(), on the board it reads. The loop over i returns at the
\* first row or column that is complete, X before O; the diagonals and the
\* draw flag are looked at only after the loop.
RECURSIVE rowColScan(_, _)
rowColScan(st, i) ==
    IF i = 3 THEN ""
    ELSE LET rowX == \A j \in 0..2 : st[unroll(i, j) + 1] = "X"
             rowO == \A j \in 0..2 : st[unroll(i, j) + 1] = "O"
             colX == \A j \in 0..2 : st[unroll(j, i) + 1] = "X"
             colO == \A j \in 0..2 : st[unroll(j, i) + 1] = "O"
         IN  IF rowX \/ colX THEN "X"
             ELSE IF rowO \/ colO THEN "O"
             ELSE rowColScan(st, i + 1)

\* A checkTermination that reports a full board as a draw before it looks
\* at the lines.
checkTermination_drawFirst(st) ==
    LET draw == \A i \in 0..2 : \A j \in 0..2 : st[unroll(i, j) + 1] # nll
        scan == rowColScan(st, 0)
        tlX  == \A i \in 0..2 : st[unroll(i, i) + 1] = "X"
        tlO  == \A i \in 0..2 : st[unroll(i, i) + 1] = "O"
        trX  == \A i \in 0..2 : st[unroll(i, 2 - i) + 1] = "X"
        trO  == \A i \in 0..2 : st[unroll(i, 2 - i) + 1] = "O"
    IN  IF draw THEN "draw"
        ELSE IF scan # "" THEN scan
        ELSE IF tlX \/ trX THEN "X"
        ELSE IF tlO \/ trO THEN "O"
        ELSE ""

checkTermination(st) ==
    LET tlX  == \A i \in 0..2 : st[unroll(i, i) + 1] = "X"
        tlO  == \A i \in 0..2 : st[unroll(i, i) + 1] = "O"
        trX  == \A i \in 0..2 : st[unroll(i, 2 - i) + 1] = "X"
        trO  == \A i \in 0..2 : st[unroll(i, 2 - i) + 1] = "O"
        draw == \A i \in 0..2 : \A j \in 0..2 : st[unroll(i, j) + 1] # nll
        scan == rowColScan(st, 0)
    IN  IF scan # "" THEN scan
        ELSE IF tlX \/ trX THEN "X"
        ELSE IF tlO \/ trO THEN "O"
        ELSE IF draw THEN "draw"
        ELSE ""

otherPlayer(p) == IF p = "X" THEN "O" ELSE "X"

\* A move that does not look at checkTermination().
moveRaises_noTerminationCheck(index) ==
    IF index >= 9 \/ index < 0 THEN TRUE
    ELSE state[index + 1] # nll

\* move(index): the three checks in the order of the code, then the write,
\* the flip of currentPlayer and the two pushes.
moveRaises(index) ==
    IF index >= 9 \/ index < 0 THEN TRUE
    ELSE IF state[index + 1] # nll THEN TRUE
    ELSE checkTermination(state) # ""

\* A move that leaves currentPlayer alone when it ends the game.
move_noFlipAtEnd(index) ==
    /\ called' = "move"
    /\ UNCHANGED <<boardVars, agentVars>>
    /\ IF moveRaises(index)
       THEN /\ error' = "InvalidActionError"
            /\ UNCHANGED gameVars
       ELSE LET newState == [state EXCEPT ![index + 1] = currentPlayer]
            IN  /\ error' = ""
                /\ state' = newState
                /\ currentPlayer' = IF checkTermination(newState) # ""
                                       THEN currentPlayer
                                       ELSE otherPlayer(currentPlayer)
                /\ actionHistory' = Append(actionHistory, index)
                /\ stateHistory' = Append(stateHistory, newState)

\* A move that pushes this.state itself, not this.state.slice(): every entry
\* pushed in the episode is the live board.
move_pushesReference(index) ==
    /\ called' = "move"
    /\ UNCHANGED <<boardVars, agentVars>>
    /\ IF moveRaises(index)
       THEN /\ error' = "InvalidActionError"
            /\ UNCHANGED gameVars
       ELSE LET newState == [state EXCEPT ![index + 1] = currentPlayer]
            IN  /\ error' = ""
                /\ state' = newState
                /\ currentPlayer' = otherPlayer(currentPlayer)
                /\ actionHistory' = Append(actionHistory, index)
                /\ stateHistory' =
                       [k \in 1..(Len(stateHistory) + 1) |->
                           IF k = 1 THEN stateHistory[1] ELSE newState]

\* A move that pushes the snapshot of the board before the token is written.
move_pushesOldBoard(index) ==
    /\ called' = "move"
    /\ UNCHANGED <<boardVars, agentVars>>
    /\ IF moveRaises(index)
       THEN /\ error' = "InvalidActionError"
            /\ UNCHANGED gameVars
       ELSE LET newState == [state EXCEPT ![index + 1] = currentPlayer]
            IN  /\ error' = ""
                /\ state' = newState
                /\ currentPlayer' = otherPlayer(currentPlayer)
                /\ actionHistory' = Append(actionHistory, index)
                /\ stateHistory' = Append(stateHistory, state)

\* A move that writes the token before it looks at checkTermination().
move_writesBeforeCheck(index) ==
    /\ called' = "move"
    /\ UNCHANGED <<boardVars, agentVars>>
    /\ IF index >= 9 \/ index < 0 \/ state[index + 1] # nll
       THEN /\ error' = "InvalidActionError"
            /\ UNCHANGED gameVars
       ELSE LET newState == [state EXCEPT ![index + 1] = currentPlayer]
            IN  IF checkTermination(state) # ""
                THEN /\ error' = "InvalidActionError"
                     /\ state' = newState
                     /\ UNCHANGED <<currentPlayer, stateHistory, actionHistory>>
                ELSE /\ error' = ""
                     /\ state' = newState
                     /\ currentPlayer' = otherPlayer(currentPlayer)
                     /\ actionHistory' = Append(actionHistory, index)
                     /\ stateHistory' = Append(stateHistory, newState)

move(index) ==
    /\ called' = "move"
    /\ UNCHANGED <<boardVars, agentVars>>
    /\ IF moveRaises(index)
       THEN /\ error' = "InvalidActionError"
            /\ UNCHANGED gameVars
       ELSE LET newState == [state EXCEPT ![index + 1] = currentPlayer]
            IN  /\ error' = ""
                /\ state' = newState
                /\ currentPlayer' = otherPlayer(currentPlayer)
                /\ actionHistory' = Append(actionHistory, index)
                /\ stateHistory' = Append(stateHistory, newState)

\* getValidActions(): the parameter list of the method is empty, so a horizon
\* a caller passes is dropped and the live board is scanned.
RECURSIVE validFrom(_)
validFrom(i) ==
    IF i >= 9 THEN <<>>
    ELSE IF state[i + 1] = nll THEN <<i>> \o validFrom(i + 1)
    ELSE validFrom(i + 1)

getValidActions(horizon) == validFrom(0)

\* A reset that forgets currentPlayer.
reset_keepsPlayer ==
    /\ called' = "reset"
    /\ error' = ""
    /\ UNCHANGED <<boardVars, agentVars>>
    /\ state' = emptyBoard
    /\ stateHistory' = <<emptyBoard>>
    /\ actionHistory' = <<>>
    /\ currentPlayer' = currentPlayer

\* A reset that pushes the empty board onto the old stateHistory.
reset_keepsHistory ==
    /\ called' = "reset"
    /\ error' = ""
    /\ UNCHANGED <<boardVars, agentVars>>
    /\ state' = emptyBoard
    /\ stateHistory' = Append(stateHistory, emptyBoard)
    /\ actionHistory' = <<>>
    /\ currentPlayer' = "X"

\* A reset that also empties the table of the agent.
reset_clearsTable ==
    /\ called' = "reset"
    /\ error' = ""
    /\ UNCHANGED <<boardVars, qState, qAction, key, fieldVars>>
    /\ Q' = [k \in {} |-> 0]
    /\ state' = emptyBoard
    /\ stateHistory' = <<emptyBoard>>
    /\ actionHistory' = <<>>
    /\ currentPlayer' = "X"

reset ==
    /\ called' = "reset"
    /\ error' = ""
    /\ UNCHANGED <<boardVars, agentVars>>
    /\ state' = emptyBoard
    /\ stateHistory' = <<emptyBoard>>
    /\ actionHistory' = <<>>
    /\ currentPlayer' = "X"

----------------------------------------------------------------------------
(* Agent (src/unnamed/part_000) *)

emptyQ == [k \in {} |-> 0]

\* A JavaScript number is modelled as a fraction <<num, den>> in lowest
\* terms with den >= 0: <<-1, 0>> is -Infinity and <<0, 0>> is NaN, which is
\* also what undefined turns into where a number is needed. Arithmetic is
\* exact; the rounding of doubles is not modelled.
RECURSIVE gcd(_, _)
gcd(a, b) == IF b = 0 THEN a ELSE gcd(b, a % b)

abs(a) == IF a < 0 THEN 0 - a ELSE a

Number(num, den) ==
    LET g == gcd(abs(num), abs(den))
        sign == IF den < 0 THEN 0 - 1 ELSE 1
    IN  IF g = 0 THEN <<0, 0>>
        ELSE <<(sign * num) \div g, (sign * den) \div g>>

Zero == <<0, 1>>

One == <<1, 1>>

negInfinity == <<0 - 1, 0>>

notANumber == <<0, 0>>

isNaN(a) == a = notANumber

\* a + b, a - b, a * b, a / b and a < b of JavaScript.
Plus(a, b) == Number(a[1] * b[2] + b[1] * a[2], a[2] * b[2])

Minus(a, b) == Number(a[1] * b[2] - b[1] * a[2], a[2] * b[2])

Times(a, b) == Number(a[1] * b[1], a[2] * b[2])

Over(a, b) == Number(a[1] * b[2], a[2] * b[1])

Less(a, b) == a[1] * b[2] < b[1] * a[2]

\* new MonteCarloAgent('O') in the hands of new GameHandler(game, 'X', agent,
\* terminalOnly): the constructor of EpsilonGreedyAgent stores epsilon in
\* self.epsilon, so this.epsilon is undefined.
newAgent ==
    /\ player = "O"
    /\ countQ = emptyQ
    /\ defaultQ = Zero
    /\ epsilon = notANumber
    /\ discount = One
    /\ rewards = <<>>
    /\ ret = undefined
    /\ log = <<>>
    /\ playerChoice = "X"
    /\ loopI = undefined
    /\ loopJ = undefined
    /\ totalReward = Zero
    /\ alpha = notANumber
    /\ storeEpsilon = notANumber
    /\ updatePlayer = ""

Digits == <<"0", "1", "2", "3", "4", "5", "6", "7", "8">>

\* _hash(state, action): state.join('') followed by the action's digit. A
\* key is modelled as the sequence of its characters.
hash(st, action) == st \o <<Digits[action + 1]>>

\* getKey(state, action). The second sweep calls rot90(mirrorState) without
\* n, so n is undefined there.
\* A first sweep whose loop ends at n < 3.
RECURSIVE sweep1_stopsEarly(_, _, _)
sweep1_stopsEarly(st, actionArray, n) ==
    IF n >= 3 THEN <<>>
    ELSE LET rotArray == rot90(actionArray, n)
             index == toActionIndex(rotArray)
             newState == rot90(st, n)
             k == hash(newState, index)
         IN  IF k \in DOMAIN Q THEN k
             ELSE sweep1_stopsEarly(st, actionArray, n + 1)

RECURSIVE sweep1(_, _, _)
sweep1(st, actionArray, n) ==
    IF n >= 4 THEN <<>>
    ELSE LET rotArray == rot90(actionArray, n)
             index == toActionIndex(rotArray)
             newState == rot90(st, n)
             k == hash(newState, index)
         IN  IF k \in DOMAIN Q THEN k ELSE sweep1(st, actionArray, n + 1)

RECURSIVE sweep2(_, _, _)
sweep2(mirrorState, mirrorActionArray, n) ==
    IF n >= 4 THEN <<>>
    ELSE LET rotArray == rot90(mirrorActionArray, n)
             index == toActionIndex(rotArray)
             newState == rot90(mirrorState, undefined)
             k == hash(newState, index)
         IN  IF k \in DOMAIN Q THEN k
             ELSE sweep2(mirrorState, mirrorActionArray, n + 1)

getKey(st, action) ==
    LET actionArray == toActionArray(action)
        first == sweep1(st, actionArray, 1)
        second == sweep2(mirror(st), mirror(actionArray), 1)
    IN  IF first # <<>> THEN first
        ELSE IF second # <<>> THEN second
        ELSE hash(st, action)

\* A table write that stores under the literal key of the pair, without
\* resolving it through getKey.
setQ_literalKey(st, action) ==
    LET k == hash(st, action)
    IN  /\ Q' = [x \in DOMAIN Q \cup {k} |-> 0]
        /\ key' = k
        /\ qState' = st
        /\ qAction' = action

\* The table write of the learners (the terminal update of updateQ):
\* key = getKey(state, action); Q.set(key, value). getKey reads only which
\* keys the table has, so the value written is left at 0 here.
setQ(st, action) ==
    LET k == getKey(st, action)
    IN  /\ Q' = [x \in DOMAIN Q \cup {k} |-> 0]
        /\ key' = k
        /\ qState' = st
        /\ qAction' = action

\* The same write with the value it stores.
setValue(st, action, value) ==
    LET k == getKey(st, action)
    IN  Q' = [x \in DOMAIN Q \cup {k} |-> IF x = k THEN value ELSE Q[x]]

\* randomChoice(arr) is arr[Math.floor(Math.random() * arr.length)]: any
\* element of arr.
randomChoice(arr) == {arr[i] : i \in 1..Len(arr)}

\* The tolerance 1.0e-4 of policy().
tolerance == <<1, 10000>>

\* A policy() that looks at the legal actions before the turn.
policyRaises_actionsFirst(horizon) ==
    IF Len(getValidActions(horizon)) = 0 THEN "InvalidActionError"
    ELSE IF horizon = null /\ player # currentPlayer THEN "MisalignedPlayerError"
    ELSE ""

\* EpsilonGreedyAgent.policy(game, horizon): the error it throws, "" if none.
policyRaises(horizon) ==
    IF horizon = null /\ player # currentPlayer THEN "MisalignedPlayerError"
    ELSE IF Len(getValidActions(horizon)) = 0 THEN "InvalidActionError"
    ELSE ""

\* The state the policy is applied to.
policyState(horizon) ==
    IF horizon = null THEN state ELSE stateHistory[horizon + 1]

\* A loop that keeps the stored proposals when it finds a greater value.
RECURSIVE bestLoop_keepsProposals(_, _, _, _, _)
bestLoop_keepsProposals(st, validActions, index, maxVal, bestActions) ==
    IF index >= Len(validActions) THEN bestActions
    ELSE LET k == getKey(st, validActions[index + 1])
             val == IF k \in DOMAIN Q THEN Q[k] ELSE defaultQ
         IN  IF Less(Minus(maxVal, tolerance), val)
                  /\ Less(val, Plus(maxVal, tolerance))
             THEN bestLoop_keepsProposals(st, validActions, index + 1, maxVal,
                           Append(bestActions, validActions[index + 1]))
             ELSE IF Less(maxVal, val)
             THEN bestLoop_keepsProposals(st, validActions, index + 1, val,
                           Append(bestActions, validActions[index + 1]))
             ELSE bestLoop_keepsProposals(st, validActions, index + 1, maxVal,
                                          bestActions)

\* The loop over keys.entries(), from position index on.
RECURSIVE bestLoop(_, _, _, _, _)
bestLoop(st, validActions, index, maxVal, bestActions) ==
    IF index >= Len(validActions) THEN bestActions
    ELSE LET k == getKey(st, validActions[index + 1])
             val == IF k \in DOMAIN Q THEN Q[k] ELSE defaultQ
         IN  IF Less(Minus(maxVal, tolerance), val)
                  /\ Less(val, Plus(maxVal, tolerance))
             THEN bestLoop(st, validActions, index + 1, maxVal,
                           Append(bestActions, validActions[index + 1]))
             ELSE IF Less(maxVal, val)
             THEN bestLoop(st, validActions, index + 1, val,
                           <<validActions[index + 1]>>)
             ELSE bestLoop(st, validActions, index + 1, maxVal, bestActions)

bestActions(horizon) ==
    bestLoop(policyState(horizon), getValidActions(horizon), 0, negInfinity, <<>>)

\* What policy(game, horizon) may return when it does not throw and
\* Math.random() gives random.
policyReturns(horizon, random) ==
    IF Less(random, epsilon) THEN randomChoice(getValidActions(horizon))
    ELSE LET best == bestActions(horizon)
         IN  IF Len(best) > 0 THEN randomChoice(best) ELSE {null}

\* A policy() that stores defaultQ under the key of the action it returns
\* when that key is not in the table.
policy_storesDefault(horizon, random) ==
    /\ called' = "policy"
    /\ error' = policyRaises(horizon)
    /\ IF policyRaises(horizon) # "" THEN ret' = undefined /\ Q' = Q
       ELSE \E a \in policyReturns(horizon, random) :
               /\ ret' = a
               /\ Q' = [x \in DOMAIN Q \cup {getKey(policyState(horizon), a)} |->
                           IF x \in DOMAIN Q THEN Q[x] ELSE defaultQ]
    /\ UNCHANGED <<gameVars, boardVars, qState, qAction, key, countQ,
                   player, epsilon, discount, defaultQ, rewards, log,
                   playerChoice, loopI, loopJ, totalReward, qFields>>

policy(horizon, random) ==
    /\ called' = "policy"
    /\ error' = policyRaises(horizon)
    /\ IF policyRaises(horizon) # "" THEN ret' = undefined
       ELSE ret' \in policyReturns(horizon, random)
    /\ UNCHANGED <<gameVars, boardVars, Q, qState, qAction, key, countQ,
                   player, epsilon, discount, defaultQ, rewards, log,
                   playerChoice, loopI, loopJ, totalReward, qFields>>

\* terminalOnly(game, player, horizon) of rewards.js. It passes horizon to
\* checkTermination(), which in game.js takes no argument and reads the
\* live board.
terminalOnly(token, horizon) ==
    LET result == checkTermination(state)
    IN  IF result = token THEN One
        ELSE IF result = "draw" \/ result = "" THEN Zero
        ELSE <<0 - 1, 1>>

\* A learn() that always takes the last state as produced by the agent.
learn_lastStateIsAgents ==
    /\ called' = "learn"
    /\ error' = ""
    /\ rewards' = Append(rewards, terminalOnly(currentPlayer, Len(stateHistory)))
    /\ log' = <<>>
    /\ IF checkTermination(state) # ""
       THEN /\ totalReward' = Zero
            /\ loopJ' = Len(rewards') - 1
            /\ loopI' = Len(stateHistory) - 2
       ELSE UNCHANGED <<loopI, loopJ, totalReward>>
    /\ UNCHANGED <<gameVars, boardVars, Q, qState, qAction, key, countQ,
                   player, epsilon, discount, defaultQ, ret, playerChoice, qFields>>

\* MonteCarloAgent.learn(game, rewardFunc) up to its loop: the reward is
\* pushed and, when the game is over, i, j and totalReward are set up.
learn ==
    /\ called' = "learn"
    /\ error' = ""
    /\ rewards' = Append(rewards, terminalOnly(currentPlayer, Len(stateHistory)))
    /\ log' = <<>>
    /\ IF checkTermination(state) # ""
       THEN LET condition ==
                    \/ player = "X" /\ Len(stateHistory) % 2 = 0
                    \/ player = "O" /\ Len(stateHistory) % 2 # 0
                end == IF condition THEN Len(stateHistory) - 1
                       ELSE Len(stateHistory) - 2
            IN  /\ totalReward' = Zero
                /\ loopJ' = Len(rewards') - 1
                /\ loopI' = end - 1
       ELSE UNCHANGED <<loopI, loopJ, totalReward>>
    /\ UNCHANGED <<gameVars, boardVars, Q, qState, qAction, key, countQ,
                   player, epsilon, discount, defaultQ, ret, playerChoice, qFields>>

\* A mean that counts defaultQ as a first return.
meanReturn_countsDefault(q, n, total) ==
    Plus(Over(Times(q, <<n + 1, 1>>), <<n + 2, 1>>), Over(total, <<n + 2, 1>>))

\* The mean of learn(): q * n / (n + 1) + totalReward / (n + 1).
meanReturn(q, n, total) ==
    Plus(Over(Times(q, <<n, 1>>), <<n + 1, 1>>), Over(total, <<n + 1, 1>>))

\* The body of the loop of learn() from the key on: the mean and the count
\* stored under key k for the return total.
updateMean(k, total) ==
    LET q == IF k \in DOMAIN Q THEN Q[k] ELSE defaultQ
        n == IF k \in DOMAIN countQ THEN countQ[k] ELSE 0
    IN  /\ Q' = [x \in DOMAIN Q \cup {k} |->
                    IF x = k THEN meanReturn(q, n, total) ELSE Q[x]]
        /\ countQ' = [x \in DOMAIN countQ \cup {k} |->
                         IF x = k THEN n + 1 ELSE countQ[x]]

\* A loop of learn() after which the rewards are not cleared.
learnLoop_keepsRewards ==
    /\ called' = "learn"
    /\ error' = ""
    /\ IF loopI >= 0
       THEN LET k == getKey(stateHistory[loopI + 1], actionHistory[loopI + 1])
                reward == IF loopJ + 1 \in DOMAIN rewards THEN rewards[loopJ + 1]
                          ELSE notANumber
                total == Plus(reward, Times(discount, totalReward))
            IN  /\ totalReward' = total
                /\ updateMean(k, total)
                /\ loopJ' = loopJ - 1
                /\ loopI' = loopI - 2
                /\ log' = Append(log, [i |-> loopI, key |-> k, Q |-> Q'[k],
                                       n |-> countQ'[k], totalReward |-> total])
                /\ UNCHANGED rewards
       ELSE /\ rewards' = rewards
            /\ loopI' = undefined
            /\ loopJ' = undefined
            /\ totalReward' = Zero
            /\ UNCHANGED <<Q, countQ, log>>
    /\ UNCHANGED <<gameVars, boardVars, qState, qAction, key, player, epsilon,
                   discount, defaultQ, ret, playerChoice, qFields>>

\* One turn of the loop of learn(), or its end, where the rewards are
\* cleared. An index outside this.rewards reads undefined.
learnLoop ==
    /\ called' = "learn"
    /\ error' = ""
    /\ IF loopI >= 0
       THEN LET k == getKey(stateHistory[loopI + 1], actionHistory[loopI + 1])
                reward == IF loopJ + 1 \in DOMAIN rewards THEN rewards[loopJ + 1]
                          ELSE notANumber
                total == Plus(reward, Times(discount, totalReward))
            IN  /\ totalReward' = total
                /\ updateMean(k, total)
                /\ loopJ' = loopJ - 1
                /\ loopI' = loopI - 2
                /\ log' = Append(log, [i |-> loopI, key |-> k, Q |-> Q'[k],
                                       n |-> countQ'[k], totalReward |-> total])
                /\ UNCHANGED rewards
       ELSE /\ rewards' = <<>>
            /\ loopI' = undefined
            /\ loopJ' = undefined
            /\ totalReward' = Zero
            /\ UNCHANGED <<Q, countQ, log>>
    /\ UNCHANGED <<gameVars, boardVars, qState, qAction, key, player, epsilon,
                   discount, defaultQ, ret, playerChoice, qFields>>

\* GameHandler.updateParams(): a field that holds a number in [0, 1] is
\* stored, any other leaves the agent's value.
inUnitRange(field) ==
    ~isNaN(field) /\ ~Less(field, Zero) /\ ~Less(One, field)

updateParams(epsilonField, discountField) ==
    /\ called' = "updateParams"
    /\ error' = ""
    /\ epsilon' = IF inUnitRange(epsilonField) THEN epsilonField ELSE epsilon
    /\ discount' = IF inUnitRange(discountField) THEN discountField ELSE discount
    /\ UNCHANGED <<gameVars, boardVars, Q, qState, qAction, key, countQ,
                   player, defaultQ, rewards, ret, log, playerChoice, loopI,
                   loopJ, totalReward, qFields>>

----------------------------------------------------------------------------
(* The eight symmetries of the board, built from rot90 and mirror: t % 4   *)
(* quarter turns, after a mirror when t >= 4.                              *)

Sym(t, st) == rot90(IF t >= 4 THEN mirror(st) ELSE st, t % 4)

SymAction(t, action) == toActionIndex(Sym(t, toActionArray(action)))

----------------------------------------------------------------------------
(* The game under any caller: any sequence of move() and reset() calls. *)

MoveInputs == (0 - MoveMargin)..(8 + MoveMargin)

Init ==
    /\ state = emptyBoard
    /\ currentPlayer = "X"
    /\ stateHistory = <<emptyBoard>>
    /\ actionHistory = <<>>
    /\ called = ""
    /\ error = ""
    /\ board = emptyBoard
    /\ outcome = ""
    /\ Q = emptyQ
    /\ qState = emptyBoard
    /\ qAction = null
    /\ key = <<>>
    /\ newAgent
    /\ pc = "idle"
    /\ episodes = 0
    /\ detours = 0
    /\ learnt = 0

\* The cells an episode may open at: the centre, a corner, an edge, then
\* the other cells.
Openings == <<4, 0, 1, 2, 3, 5, 6, 7, 8>>

OpeningCells == {Openings[k] : k \in {j \in 1..9 : j <= MaxOpenings}}

callMove ==
    \E index \in MoveInputs :
        /\ (actionHistory = <<>> /\ index \in 0..8) => index \in OpeningCells
        /\ move(index)
        /\ UNCHANGED driverVars

callReset == reset /\ UNCHANGED driverVars

Next == callMove \/ callReset

Spec == Init /\ [][Next]_vars

----------------------------------------------------------------------------
(* checkTermination(), rot90() and mirror() as functions of a board.       *)

Lines == {{0, 1, 2}, {3, 4, 5}, {6, 7, 8},
          {0, 3, 6}, {1, 4, 7}, {2, 5, 8},
          {0, 4, 8}, {2, 4, 6}}

Owns(st, token) == \E line \in Lines : \A c \in line : st[c + 1] = token

Full(st) == \A c \in 0..8 : st[c + 1] # nll

\* The boards in which at most one token owns a complete line.
BoardInputs == {st \in [1..9 -> Cells] : ~(Owns(st, "X") /\ Owns(st, "O"))}

InitBoard ==
    /\ state = emptyBoard
    /\ currentPlayer = "X"
    /\ stateHistory = <<emptyBoard>>
    /\ actionHistory = <<>>
    /\ called = ""
    /\ error = ""
    /\ board \in BoardInputs
    /\ outcome = ""
    /\ Q = emptyQ
    /\ qState = emptyBoard
    /\ qAction = null
    /\ key = <<>>
    /\ newAgent
    /\ pc = "idle"
    /\ episodes = 0
    /\ detours = 0
    /\ learnt = 0

callCheckTermination ==
    /\ called' = "checkTermination"
    /\ outcome' = checkTermination(board)
    /\ UNCHANGED <<gameVars, error, board, agentVars, driverVars>>

callRot90 ==
    \E n \in 1..3 :
        /\ called' = "rot90"
        /\ board' = rot90(board, n)
        /\ UNCHANGED <<gameVars, error, outcome, agentVars, driverVars>>

callMirror ==
    /\ called' = "mirror"
    /\ board' = mirror(board)
    /\ UNCHANGED <<gameVars, error, outcome, agentVars, driverVars>>

NextBoard == callCheckTermination \/ callRot90 \/ callMirror

SpecBoard == InitBoard /\ [][NextBoard]_vars

----------------------------------------------------------------------------
(* getKey() and the table: keys are written and looked up for the          *)
(* positions of one symmetry class at a time.                              *)

mover(plies) == IF plies % 2 = 0 THEN "X" ELSE "O"

RECURSIVE BoardsAt(_)
BoardsAt(plies) ==
    IF plies = 0 THEN {emptyBoard}
    ELSE {[st EXCEPT ![c] = mover(plies - 1)] :
            <<st, c>> \in {<<st, c>> \in BoardsAt(plies - 1) \X (1..9) :
                            st[c] = nll /\ checkTermination(st) = ""}}

KeyBoards == UNION {BoardsAt(plies) : plies \in 0..MaxTokens}

\* A position and a legal action in it.
KeyPairs ==
    {<<st, a>> \in KeyBoards \X (0..8) : st[a + 1] = nll /\ checkTermination(st) = ""}

\* The first call is on any position, the later ones on its symmetric variants.
KeyInputs ==
    IF qAction = null THEN KeyPairs
    ELSE {<<Sym(t, qState), SymAction(t, qAction)>> : t \in 0..7}

callGetKey ==
    \E p \in KeyInputs :
        /\ called' = "getKey"
        /\ qState' = p[1]
        /\ qAction' = p[2]
        /\ key' = getKey(p[1], p[2])
        /\ UNCHANGED <<gameVars, error, boardVars, Q, fieldVars, driverVars>>

callSetQ ==
    \E p \in KeyInputs :
        /\ called' = "setQ"
        /\ setQ(p[1], p[2])
        /\ UNCHANGED <<gameVars, error, boardVars, fieldVars, driverVars>>

NextKey == callGetKey \/ callSetQ

SpecKey == Init /\ [][NextKey]_vars

----------------------------------------------------------------------------
(* policy() on the positions of one line of play: the line is played with  *)
(* an empty table, then values are stored for legal actions of the         *)
(* position reached, and then policy() is called on it. policy() changes   *)
(* nothing it reads, so one call is as good as many.                       *)

\* The first cell of Openings, from position k on, that is EMPTY.
RECURSIVE nextInLine(_)
nextInLine(k) ==
    IF k > 9 THEN null
    ELSE IF state[Openings[k] + 1] = nll THEN Openings[k]
    ELSE nextInLine(k + 1)

\* Values a learner can store: 0.00009 and 0.00018 (a reward of 1
\* discounted by as much), each within the tolerance of policy() of its
\* neighbour, the second beyond the tolerance of defaultQ.
ValueInputs == {<<9, 100000>>, <<18, 100000>>}

\* Math.random().
RandomInputs == {Zero, <<3, 4>>}

\* The field of epsilon: 0, 0.5 and 2, which is out of range.
EpsilonFields == {Zero, <<1, 2>>, <<2, 1>>}

\* No horizon, the first snapshot and the latest.
HorizonInputs == {null, 0, Len(stateHistory) - 1}

lineMove ==
    /\ called # "policy"
    /\ Q = emptyQ
    /\ nextInLine(1) # null
    /\ move(nextInLine(1))
    /\ UNCHANGED driverVars

callSetValue ==
    \E index \in 1..Len(getValidActions(null)) : \E value \in ValueInputs :
        /\ called # "policy"
        /\ Cardinality(DOMAIN Q \cup {getKey(state, getValidActions(null)[index])})
              <= MaxEntries
        /\ called' = "set"
        /\ error' = ""
        /\ setValue(state, getValidActions(null)[index], value)
        /\ UNCHANGED <<gameVars, boardVars, qState, qAction, key, fieldVars, driverVars>>

callPolicy ==
    \E horizon \in HorizonInputs : \E random \in RandomInputs :
        /\ called # "policy"
        /\ policy(horizon, random)
        /\ UNCHANGED driverVars

callUpdateParams ==
    \E epsilonField \in EpsilonFields :
        /\ called # "policy"
        /\ updateParams(epsilonField, One)
        /\ UNCHANGED driverVars

\* this.agent.player = 'X' or 'O', as resetGame() assigns it; here before
\* the line is played.
callSetPlayer ==
    \E token \in Tokens :
        /\ called = ""
        /\ called' = "setPlayer"
        /\ error' = ""
        /\ player' = token
        /\ UNCHANGED <<gameVars, boardVars, Q, qState, qAction, key, countQ,
                       epsilon, discount, defaultQ, rewards, ret, log,
                       playerChoice, loopI, loopJ, totalReward, driverVars, qFields>>

NextPolicy ==
    lineMove \/ callSetValue \/ callPolicy \/ callUpdateParams \/ callSetPlayer

SpecPolicy == Init /\ [][NextPolicy]_vars

----------------------------------------------------------------------------
(* QLearningAgent (src/unnamed/part_000) *)

\* updateParams() for a QLearningAgent: the learning rate is stored when the
\* field holds a number >= 0.
updateParamsQ(epsilonField, discountField, alphaField) ==
    /\ called' = "updateParams"
    /\ error' = ""
    /\ epsilon' = IF inUnitRange(epsilonField) THEN epsilonField ELSE epsilon
    /\ discount' = IF inUnitRange(discountField) THEN discountField ELSE discount
    /\ alpha' = IF ~isNaN(alphaField) /\ ~Less(alphaField, Zero) THEN alphaField
                ELSE alpha
    /\ UNCHANGED <<gameVars, boardVars, Q, qState, qAction, key, countQ,
                   player, defaultQ, rewards, ret, log, playerChoice, loopI,
                   loopJ, totalReward, storeEpsilon, updatePlayer>>

\* this.Q.has(key) ? this.Q.get(key) : this.defaultQ
storedQ(k) == IF k \in DOMAIN Q THEN Q[k] ELSE defaultQ

\* A learn() that makes the policy greedy before it looks at the outcome.
learnQ_greedyFirst ==
    /\ called' = "learn"
    /\ error' = ""
    /\ log' = <<>>
    /\ storeEpsilon' = epsilon
    /\ epsilon' = <<0 - 1, 1>>
    /\ IF checkTermination(state) # ""
       THEN /\ updatePlayer' = "X"
            /\ loopI' = 0
       ELSE UNCHANGED <<updatePlayer, loopI>>
    /\ UNCHANGED <<gameVars, boardVars, Q, qState, qAction, key, countQ,
                   player, discount, defaultQ, rewards, ret, playerChoice,
                   loopJ, totalReward, alpha>>

\* QLearningAgent.learn(game, rewardFunc) up to the first updateQ(): on a
\* finished game epsilon is put aside and set to -1.
learnQ ==
    /\ called' = "learn"
    /\ error' = ""
    /\ log' = <<>>
    /\ IF checkTermination(state) # ""
       THEN /\ storeEpsilon' = epsilon
            /\ epsilon' = <<0 - 1, 1>>
            /\ updatePlayer' = "X"
            /\ loopI' = 0
       ELSE UNCHANGED <<storeEpsilon, epsilon, updatePlayer, loopI>>
    /\ UNCHANGED <<gameVars, boardVars, Q, qState, qAction, key, countQ,
                   player, discount, defaultQ, rewards, ret, playerChoice,
                   loopJ, totalReward, alpha>>

\* end of updateQ(game, playerChoice, rewardFunc).
updateEnd ==
    LET condition ==
            \/ updatePlayer = "X" /\ Len(stateHistory) % 2 = 0
            \/ updatePlayer = "O" /\ Len(stateHistory) % 2 # 0
    IN  IF condition THEN Len(stateHistory) - 2 ELSE Len(stateHistory) - 3

\* oldQ + this.alpha * (reward + this.discount * futureQ - oldQ)
stepValue(oldQ, reward, futureQ) ==
    Plus(oldQ, Times(alpha, Minus(Plus(reward, Times(discount, futureQ)), oldQ)))

\* A terminal update that takes the old value of the key as the value of a
\* successor.
terminalValue_withSuccessor(terminalQ, terminalReward) ==
    Plus(terminalQ,
         Times(alpha, Minus(Plus(terminalReward, Times(discount, terminalQ)),
                            terminalQ)))

\* terminalQ + this.alpha * (terminalReward - terminalQ)
terminalValue(terminalQ, terminalReward) ==
    Plus(terminalQ, Times(alpha, Minus(terminalReward, terminalQ)))

\* One turn of the loop of updateQ(), or what follows the loop: the terminal
\* update, and then the next updateQ() or the end of learn(), where epsilon
\* is restored. An error of policy() leaves learn() at once.
updateQ ==
    /\ called' = "learn"
    /\ IF loopI < updateEnd
       THEN LET reward == terminalOnly(updatePlayer, loopI + 2)
                oldKey == getKey(stateHistory[loopI + 1], actionHistory[loopI + 1])
                oldQ == storedQ(oldKey)
            IN  IF policyRaises(loopI + 2) # ""
                THEN /\ error' = policyRaises(loopI + 2)
                     /\ loopI' = undefined
                     /\ updatePlayer' = ""
                     /\ UNCHANGED <<Q, log, epsilon>>
                ELSE \E random \in RandomInputs :
                     \E futureAction \in policyReturns(loopI + 2, random) :
                        LET futureKey == getKey(stateHistory[loopI + 3], futureAction)
                            futureQ == storedQ(futureKey)
                            newQ == stepValue(oldQ, reward, futureQ)
                        IN  /\ error' = ""
                            /\ Q' = [x \in DOMAIN Q \cup {oldKey} |->
                                        IF x = oldKey THEN newQ ELSE Q[x]]
                            /\ log' = Append(log,
                                   [player |-> updatePlayer, i |-> loopI,
                                    key |-> oldKey, rule |-> "step",
                                    reward |-> reward, oldQ |-> oldQ,
                                    futureQ |-> futureQ, newQ |-> newQ])
                            /\ loopI' = loopI + 2
                            /\ UNCHANGED <<updatePlayer, epsilon>>
       ELSE LET terminalReward == terminalOnly(updatePlayer, null)
                terminalKey == getKey(stateHistory[updateEnd + 1],
                                      actionHistory[updateEnd + 1])
                terminalQ == storedQ(terminalKey)
                newQ == terminalValue(terminalQ, terminalReward)
            IN  /\ error' = ""
                /\ Q' = [x \in DOMAIN Q \cup {terminalKey} |->
                            IF x = terminalKey THEN newQ ELSE Q[x]]
                /\ log' = Append(log,
                       [player |-> updatePlayer, i |-> updateEnd,
                        key |-> terminalKey, rule |-> "terminal",
                        reward |-> terminalReward, oldQ |-> terminalQ,
                        futureQ |-> Zero,
                        newQ |-> newQ])
                /\ IF updatePlayer = "X"
                   THEN /\ updatePlayer' = "O"
                        /\ loopI' = 1
                        /\ UNCHANGED epsilon
                   ELSE /\ updatePlayer' = ""
                        /\ loopI' = undefined
                        /\ epsilon' = storeEpsilon
    /\ UNCHANGED <<gameVars, boardVars, qState, qAction, key, countQ, player,
                   discount, defaultQ, rewards, ret, playerChoice, loopJ,
                   totalReward, alpha, storeEpsilon>>

----------------------------------------------------------------------------
(* A session of GameHandler with a MonteCarloAgent: the user clicks a cell  *)
(* (moveSequence), resets a finished game (resetGame) or changes the       *)
(* hyperparameters (updateParams). pc follows the handler that runs.       *)

\* The field of the discount: 0.5, and a text that is not a number.
DiscountFields == {<<1, 2>>, notANumber}

\* The cells a move may take: the first legal cell, and the second while
\* the session has detours left.
MoveChoices ==
    {getValidActions(null)[c] :
        c \in {c \in 1..Len(getValidActions(null)) :
                  c = 1 \/ (c = 2 /\ detours < MaxDetours)}}

countDetour(index) ==
    detours' = IF index = getValidActions(null)[1] THEN detours ELSE detours + 1

\* A moveSequence that calls learn() after the first ply too.
playerMove_alwaysLearns ==
    /\ pc = "idle"
    /\ checkTermination(state) = ""
    /\ \E index \in MoveChoices :
          /\ move(index)
          /\ countDetour(index)
    /\ pc' = "learn"
    /\ UNCHANGED <<episodes, learnt>>

\* moveSequence(buttonId), first statement. The buttons of taken cells and
\* of a finished game are disabled.
playerMove ==
    /\ pc = "idle"
    /\ checkTermination(state) = ""
    /\ \E index \in MoveChoices :
          /\ move(index)
          /\ countDetour(index)
    /\ pc' = IF Len(actionHistory') > 1 THEN "learn" ELSE "policy"
    /\ UNCHANGED <<episodes, learnt>>

\* this.agent.learn(...) of moveSequence, after the user's move or after the
\* computer's.
callLearn ==
    /\ pc \in {"learn", "learnEnd"}
    /\ learn
    /\ pc' = IF checkTermination(state) # "" THEN "loop"
             ELSE IF pc = "learn" THEN "policy"
             ELSE "idle"
    /\ learnt' = IF checkTermination(state) # "" THEN learnt + 1 ELSE learnt
    /\ UNCHANGED <<episodes, detours>>

runLearnLoop ==
    /\ pc = "loop"
    /\ learnLoop
    /\ pc' = IF loopI >= 0 THEN "loop" ELSE "idle"
    /\ UNCHANGED <<episodes, detours, learnt>>

\* computerMove(): this.agent.policy(this.game) ...
computerPolicy ==
    /\ pc = "policy"
    /\ \E random \in RandomInputs : policy(null, random)
    /\ error' = "" => ret' \in MoveChoices
    /\ pc' = IF error' # "" THEN "idle" ELSE "move"
    /\ UNCHANGED <<episodes, detours, learnt>>

\* A computerMove() after which moveSequence does not look at the outcome.
computerMove_noSecondLearn ==
    /\ pc = "move"
    /\ move(ret)
    /\ countDetour(ret)
    /\ pc' = "idle"
    /\ UNCHANGED <<episodes, learnt>>

\* ... and this.game.move(index).
computerMove ==
    /\ pc = "move"
    /\ move(ret)
    /\ countDetour(ret)
    /\ pc' = IF checkTermination(state') # "" THEN "learnEnd" ELSE "idle"
    /\ UNCHANGED <<episodes, learnt>>

\* resetGame(): this.game.reset() ...
resetGame ==
    /\ pc = "idle"
    /\ checkTermination(state) # ""
    /\ episodes < MaxResets
    /\ reset
    /\ pc' = "sides"
    /\ episodes' = episodes + 1
    /\ learnt' = 0
    /\ UNCHANGED detours

\* A draw of the sides that leaves the token of the agent as it was.
chooseSides_keepsAgentToken ==
    /\ pc = "sides"
    /\ \E token \in Tokens :
          /\ playerChoice' = token
          /\ player' = player
          /\ pc' = IF token = "O" THEN "policy" ELSE "idle"
    /\ called' = "resetGame"
    /\ error' = ""
    /\ UNCHANGED <<gameVars, boardVars, Q, qState, qAction, key, countQ,
                   epsilon, discount, defaultQ, rewards, ret, log, loopI,
                   loopJ, totalReward, episodes, detours, learnt, qFields>>

\* ... and the draw of the sides; the computer moves first as 'X'.
chooseSides ==
    /\ pc = "sides"
    /\ \E token \in Tokens :
          /\ playerChoice' = token
          /\ player' = otherPlayer(token)
          /\ pc' = IF token = "O" THEN "policy" ELSE "idle"
    /\ called' = "resetGame"
    /\ error' = ""
    /\ UNCHANGED <<gameVars, boardVars, Q, qState, qAction, key, countQ,
                   epsilon, discount, defaultQ, rewards, ret, log, loopI,
                   loopJ, totalReward, episodes, detours, learnt, qFields>>

clickUpdateParams ==
    /\ pc = "idle"
    /\ detours < MaxDetours
    /\ \E epsilonField \in EpsilonFields : \E discountField \in DiscountFields :
          updateParams(epsilonField, discountField)
    /\ detours' = detours + 1
    /\ UNCHANGED <<pc, episodes, learnt>>

NextDriver ==
    \/ playerMove
    \/ callLearn
    \/ runLearnLoop
    \/ computerPolicy
    \/ computerMove
    \/ resetGame
    \/ chooseSides
    \/ clickUpdateParams

SpecDriver == Init /\ [][NextDriver]_vars

----------------------------------------------------------------------------
(* A session of GameHandler as main.js builds it, with a QLearningAgent:   *)
(* the same handlers, with learn() and updateParams() of that agent.       *)

\* What the three fields hold when Update is clicked, as <<epsilon,
\* discount, learning rate>>: 0.5, a text that is not a number and 0.5, or
\* 2 (out of range), 0.5 and a text that is not a number.
FieldInputs == {<<<<1, 2>>, notANumber, <<1, 2>>>>,
                <<<<2, 1>>, <<1, 2>>, notANumber>>}

\* new GameHandler(game, 'X', new QLearningAgent('O'), terminalOnly): the
\* constructor of GameHandler stores the fields of the page in the agent,
\* epsilon 0.0, discount 1.0 and learning rate 0.1.
InitQ ==
    /\ state = emptyBoard
    /\ currentPlayer = "X"
    /\ stateHistory = <<emptyBoard>>
    /\ actionHistory = <<>>
    /\ called = ""
    /\ error = ""
    /\ board = emptyBoard
    /\ outcome = ""
    /\ Q = emptyQ
    /\ qState = emptyBoard
    /\ qAction = null
    /\ key = <<>>
    /\ player = "O"
    /\ countQ = emptyQ
    /\ defaultQ = Zero
    /\ epsilon = Zero
    /\ discount = One
    /\ alpha = <<1, 10>>
    /\ rewards = <<>>
    /\ ret = undefined
    /\ log = <<>>
    /\ playerChoice = "X"
    /\ loopI = undefined
    /\ loopJ = undefined
    /\ totalReward = Zero
    /\ storeEpsilon = notANumber
    /\ updatePlayer = ""
    /\ pc = "idle"
    /\ episodes = 0
    /\ detours = 0
    /\ learnt = 0

\* this.agent.learn(...) of moveSequence, after the user's move or after the
\* computer's.
callLearnQ ==
    /\ pc \in {"learn", "learnEnd"}
    /\ learnQ
    /\ pc' = IF checkTermination(state) # "" THEN "updateQ"
             ELSE IF pc = "learn" THEN "policy"
             ELSE "idle"
    /\ learnt' = IF checkTermination(state) # "" THEN learnt + 1 ELSE learnt
    /\ UNCHANGED <<episodes, detours>>

\* The error of policy() inside updateQ() ends the handler; so does the
\* return of learn(), which on a finished game is followed by enableReset().
runUpdateQ ==
    /\ pc = "updateQ"
    /\ updateQ
    /\ pc' = IF updatePlayer' = "" THEN "idle" ELSE "updateQ"
    /\ UNCHANGED <<episodes, detours, learnt>>

clickUpdateParamsQ ==
    /\ pc = "idle"
    /\ detours < MaxDetours
    /\ \E fields \in FieldInputs :
          updateParamsQ(fields[1], fields[2], fields[3])
    /\ detours' = detours + 1
    /\ UNCHANGED <<pc, episodes, learnt>>

NextQ ==
    \/ playerMove
    \/ callLearnQ
    \/ runUpdateQ
    \/ computerPolicy
    \/ computerMove
    \/ resetGame
    \/ chooseSides
    \/ clickUpdateParamsQ

SpecQ == InitQ /\ [][NextQ]_vars

----------------------------------------------------------------------------
(* The same session with a longer budget of detours, in which Update is    *)
(* clicked with 0.5 in the field of epsilon and 1 in the field of the      *)
(* learning rate: two episodes that part at the last ply.                  *)

RangeFields == {<<<<1, 2>>, notANumber, One>>}

InitRange ==
    /\ state = emptyBoard
    /\ currentPlayer = "X"
    /\ stateHistory = <<emptyBoard>>
    /\ actionHistory = <<>>
    /\ called = ""
    /\ error = ""
    /\ board = emptyBoard
    /\ outcome = ""
    /\ Q = emptyQ
    /\ qState = emptyBoard
    /\ qAction = null
    /\ key = <<>>
    /\ player = "O"
    /\ countQ = emptyQ
    /\ defaultQ = Zero
    /\ epsilon = Zero
    /\ discount = One
    /\ alpha = <<1, 10>>
    /\ rewards = <<>>
    /\ ret = undefined
    /\ log = <<>>
    /\ playerChoice = "X"
    /\ loopI = undefined
    /\ loopJ = undefined
    /\ totalReward = Zero
    /\ storeEpsilon = notANumber
    /\ updatePlayer = ""
    /\ pc = "idle"
    /\ episodes = 0
    /\ detours = 0 - RangeDetours
    /\ learnt = 0

clickUpdateParamsRange ==
    /\ pc = "idle"
    /\ detours < MaxDetours
    /\ \E fields \in RangeFields :
          updateParamsQ(fields[1], fields[2], fields[3])
    /\ detours' = detours + 1
    /\ UNCHANGED <<pc, episodes, learnt>>

NextRange ==
    \/ playerMove
    \/ callLearnQ
    \/ runUpdateQ
    \/ computerPolicy
    \/ computerMove
    \/ resetGame
    \/ chooseSides
    \/ clickUpdateParamsRange

SpecRange == InitRange /\ [][NextRange]_vars

----------------------------------------------------------------------------
(* The running mean of learn(): returns arrive, one episode after another, *)
(* for the key of the first ply (empty board, cell 0) of an agent built    *)
(* with any defaultQ. log holds the returns that have arrived.             *)

\* defaultQ of new MonteCarloAgent(player, epsilon, discount, defaultQ).
DefaultInputs == {Zero, <<5, 1>>}

\* The returns of an episode: a reward of -1, 0 or 1, or 1 discounted by 0.5.
ReturnInputs == {<<0 - 1, 1>>, Zero, One, <<1, 2>>}

InitMean ==
    /\ state = emptyBoard
    /\ currentPlayer = "X"
    /\ stateHistory = <<emptyBoard>>
    /\ actionHistory = <<>>
    /\ called = ""
    /\ error = ""
    /\ board = emptyBoard
    /\ outcome = ""
    /\ Q = emptyQ
    /\ qState = emptyBoard
    /\ qAction = null
    /\ key = <<>>
    /\ player = "X"
    /\ countQ = emptyQ
    /\ defaultQ \in DefaultInputs
    /\ epsilon = notANumber
    /\ discount = One
    /\ rewards = <<>>
    /\ ret = undefined
    /\ log = <<>>
    /\ playerChoice = "O"
    /\ loopI = undefined
    /\ loopJ = undefined
    /\ totalReward = Zero
    /\ alpha = notANumber
    /\ storeEpsilon = notANumber
    /\ updatePlayer = ""
    /\ pc = "idle"
    /\ episodes = 0
    /\ detours = 0
    /\ learnt = 0

observeReturn ==
    \E total \in ReturnInputs :
        /\ Len(log) < MaxReturns
        /\ called' = "learn"
        /\ error' = ""
        /\ updateMean(getKey(emptyBoard, 0), total)
        /\ log' = Append(log, total)
        /\ UNCHANGED <<gameVars, boardVars, qState, qAction, key, player,
                       epsilon, discount, defaultQ, rewards, ret, playerChoice,
                       loopI, loopJ, totalReward, driverVars, qFields>>

NextMean == observeReturn

SpecMean == InitMean /\ [][NextMean]_vars

----------------------------------------------------------------------------
(* What the claims speak of, stated without the code's index tables.       *)

Count(st, token) == Cardinality({c \in 0..8 : st[c + 1] = token})

EmptyCells(st) == {c \in 0..8 : st[c + 1] = nll}

\* seq lists the members of set once each, in ascending order.
IsAscendingListOf(seq, set) ==
    /\ Len(seq) = Cardinality(set)
    /\ {seq[k] : k \in 1..Len(seq)} = set
    /\ \A k \in 1..(Len(seq) - 1) : seq[k] < seq[k + 1]

\* The outcome of a board by the rules of the game.
Ruling(st) ==
    IF Owns(st, "X") THEN "X"
    ELSE IF Owns(st, "O") THEN "O"
    ELSE IF Full(st) THEN "draw"
    ELSE ""

\* A quarter turn clockwise moves the cell at (row, col) to (col, 2 - row);
\* a mirror across the vertical axis moves it to (row, 2 - col).
TurnCell(c) == (c % 3) * 3 + (2 - (c \div 3))

FlipCell(c) == (c \div 3) * 3 + (2 - (c % 3))

Turn(st) == [k \in 1..9 |-> st[CHOOSE j \in 1..9 : TurnCell(j - 1) = k - 1]]

Flip(st) == [k \in 1..9 |-> st[CHOOSE j \in 1..9 : FlipCell(j - 1) = k - 1]]

RECURSIVE Turned(_, _)
Turned(st, n) == IF n = 0 THEN st ELSE Turn(Turned(st, n - 1))

RECURSIVE TurnedCell(_, _)
TurnedCell(c, n) == IF n = 0 THEN c ELSE TurnCell(TurnedCell(c, n - 1))

\* The literal key of (st, action) turned n times: the cells in raster
\* order, then the digit of the action.
LiteralKey(st, action) == [k \in 1..10 |-> IF k <= 9 THEN st[k] ELSE Digits[action + 1]]

RotKey(st, action, n) == LiteralKey(Turned(st, n), TurnedCell(action, n))

MirRotKey(st, action, n) == RotKey(Flip(st), FlipCell(action), n)

RotHits == {n \in 1..3 : RotKey(qState, qAction, n) \in DOMAIN Q}

MirRotHits == {n \in 1..3 : MirRotKey(qState, qAction, n) \in DOMAIN Q}

Least(set) == CHOOSE n \in set : \A m \in set : n <= m

\* The literal keys of the eight symmetric variants of the last query.
ClassKeys ==
    {RotKey(qState, qAction, n) : n \in 0..3}
        \cup {MirRotKey(qState, qAction, n) : n \in 0..3}

\* The position and the action a key was made from.
KeyState(k) == SubSeq(k, 1, 9)

KeyAction(k) == CHOOSE a \in 0..8 : Digits[a + 1] = k[10]

\* k2 is the literal key of one of the eight symmetric variants of k1's pair.
SameClass(k1, k2) ==
    \E n \in 0..3 :
        \/ k2 = RotKey(KeyState(k1), KeyAction(k1), n)
        \/ k2 = MirRotKey(KeyState(k1), KeyAction(k1), n)

\* The value of a legal action of the live board: the stored value of the
\* key getKey gives it, defaultQ when that key is not in the table.
ValueOf(a) ==
    IF getKey(state, a) \in DOMAIN Q THEN Q[getKey(state, a)] ELSE defaultQ

\* The legal actions whose value is within the tolerance of the largest
\* value of a legal action.
TieSet ==
    LET best == CHOOSE a \in EmptyCells(state) :
                    \A b \in EmptyCells(state) : ~Less(ValueOf(a), ValueOf(b))
    IN  {a \in EmptyCells(state) :
            Less(Minus(ValueOf(best), tolerance), ValueOf(a))}

\* The legal actions whose value exceeds the value of every other legal
\* action by more than the tolerance: one action or none.
ClearBest ==
    {a \in EmptyCells(state) :
        \A b \in EmptyCells(state) \ {a} :
            Less(Plus(ValueOf(b), tolerance), ValueOf(a))}

\* The plies of the episode the agent's token played: the even ones for
\* 'X', the odd ones for 'O'.
AgentPlies ==
    {i \in 0..(Len(actionHistory) - 1) : i % 2 = IF player = "X" THEN 0 ELSE 1}

\* The sum of a sequence of numbers.
RECURSIVE SumOf(_)
SumOf(seq) ==
    IF seq = <<>> THEN Zero ELSE Plus(seq[1], SumOf(Tail(seq)))

\* The reward of terminalOnly for token on the board st.
RewardOn(st, token) ==
    IF Ruling(st) = token THEN One
    ELSE IF Ruling(st) \in {"draw", ""} THEN Zero
    ELSE <<0 - 1, 1>>

\* The members of a set of cells in ascending order.
RECURSIVE Ascending(_)
Ascending(set) ==
    IF set = {} THEN <<>>
    ELSE <<Least(set)>> \o Ascending(set \ {Least(set)})

\* The values the update of ply i may store when it is made online, that is
\* as soon as stateHistory[i + 2] is the live board: the reward and the
\* legal actions are those of that board, and the action is the one the
\* greedy policy picks on it. The keys such an update reads belong to
\* positions in which the same player moves; no update of the other player
\* and no update of a later ply writes them, so the table of the batch
\* holds for them what the table of the online learner would.
OnlineValues(i) ==
    LET successor == stateHistory[i + 3]
        oldQ == storedQ(getKey(stateHistory[i + 1], actionHistory[i + 1]))
        best == bestLoop(successor, Ascending(EmptyCells(successor)), 0,
                         negInfinity, <<>>)
    IN  {stepValue(oldQ, RewardOn(successor, mover(i)),
                   storedQ(getKey(successor, best[c]))) : c \in 1..Len(best)}

----------------------------------------------------------------------------
(* Claims *)

\* C1: move(index) raises InvalidActionError exactly when index is outside
\* 0..8, or the cell is not EMPTY, or the game is already won or drawn; in
\* every other case it succeeds (returns and places a token).
C1_MoveRaisesExactly ==
    [][called' = "move" =>
         LET over == Ruling(state) # ""
             MustRaise(index) ==
                 index \notin 0..8 \/ state[index + 1] # nll \/ over
         IN  \A index \in MoveInputs :
                IF MustRaise(index)
                THEN error' = "InvalidActionError" \/ ~move(index)
                ELSE (error' = "" /\ state' # state) \/ ~move(index)]_vars

\* A move() on a finished game that still has an EMPTY cell has raised.
C1_Witness ==
    /\ called = "move"
    /\ error = "InvalidActionError"
    /\ Ruling(state) # ""
    /\ EmptyCells(state) # {}

\* C2: a successful move(index) writes the token of the player whose turn it
\* was into cell index and into no other cell, appends index to
\* actionHistory and the new board to stateHistory, and flips currentPlayer
\* between 'X' and 'O', also when the move ends the game.
C2_MoveEffect ==
    [][\A index \in MoveInputs :
         (error' = "" /\ move(index)) =>
            /\ index \in 0..8
            /\ currentPlayer \in Tokens
            /\ state'[index + 1] = currentPlayer
            /\ \A c \in 0..8 : c # index => state'[c + 1] = state[c + 1]
            /\ actionHistory' = actionHistory \o <<index>>
            /\ stateHistory' = stateHistory \o <<state'>>
            /\ currentPlayer' \in Tokens \ {currentPlayer}]_vars

\* A successful move() has just ended the game.
C2_Witness ==
    /\ called = "move"
    /\ error = ""
    /\ Ruling(state) \in Tokens

\* C3: in every reachable state count('X') - count('O') is 0 or 1, and it is
\* 0 exactly when currentPlayer is 'X'.
C3_TokenBalance ==
    LET diff == Count(state, "X") - Count(state, "O")
    IN  /\ diff \in {0, 1}
        /\ (diff = 0) <=> (currentPlayer = "X")

\* A failed move() after an odd number of plies.
C3_Witness ==
    /\ called = "move"
    /\ error = "InvalidActionError"
    /\ Count(state, "X") = 3
    /\ Count(state, "O") = 2

\* The shape of the history in one state.
C4_HistoryShape ==
    /\ Len(stateHistory) = Len(actionHistory) + 1
    /\ stateHistory[Len(stateHistory)] = state
    /\ \A k \in 1..Len(actionHistory) :
          \A c \in 0..8 :
             (stateHistory[k + 1][c + 1] # stateHistory[k][c + 1])
                <=> (c = actionHistory[k])

\* A move() step keeps every entry that is already in stateHistory.
C4_EntriesFrozen ==
    called' = "move" =>
        \A k \in 1..Len(stateHistory) :
            /\ k <= Len(stateHistory')
            /\ stateHistory'[k] = stateHistory[k]

\* C4: stateHistory has actionHistory.length + 1 entries, its last entry is
\* the live board, entry k+1 differs from entry k exactly in cell
\* actionHistory[k], and a move never changes an entry that is already there.
C4_History == []C4_HistoryShape /\ [][C4_EntriesFrozen]_vars

\* A full episode of nine plies is in the history.
C4_Witness == Len(actionHistory) = 9

\* C5: on every board in which at most one token owns a complete line,
\* checkTermination() returns that token if it owns one of the 8 lines,
\* 'draw' if no cell is EMPTY and no line is owned, '' otherwise; a full
\* board with a won line gives the winner, never 'draw'.
C5_Outcome ==
    called = "checkTermination" => outcome = Ruling(board)

\* checkTermination() has returned the winner of a full board.
C5_Witness ==
    /\ called = "checkTermination"
    /\ Full(board)
    /\ outcome \in Tokens

C7_ValidActionsAtHorizon ==
    /\ IsAscendingListOf(getValidActions(null), EmptyCells(state))
    /\ \A h \in 0..(Len(stateHistory) - 1) :
          IsAscendingListOf(getValidActions(h), EmptyCells(stateHistory[h + 1]))

\* C8: when exactly one literal key of the class of (S, A) is in the table,
\* getKey returns that key for every one of the 8 symmetric variants.
C8_SoleKeyShared ==
    (called = "getKey" /\ Cardinality(ClassKeys \cap DOMAIN Q) = 1) =>
        key \in ClassKeys \cap DOMAIN Q

\* C9: when no key of a plain rotation is in the table but the key of the
\* mirrored pair rotated by some n in 1..3 is, getKey returns that key.
C9_MirrorSweep ==
    (called = "getKey" /\ RotHits = {} /\ MirRotHits # {}) =>
        key \in {MirRotKey(qState, qAction, n) : n \in MirRotHits}

\* C10: getKey returns the key of the clockwise rotation with the smallest
\* n in 1..3 whose literal key is in the table; with no rotated and no
\* mirrored-rotated key in the table it returns the literal key of (S, A).
C10_FirstRotation ==
    called = "getKey" =>
        IF RotHits # {}
        THEN key = RotKey(qState, qAction, Least(RotHits))
        ELSE (MirRotHits = {} => key = LiteralKey(qState, qAction))

\* getKey has resolved a query to the key of one of its rotations.
C10_Witness ==
    /\ called = "getKey"
    /\ RotHits # {}
    /\ key # LiteralKey(qState, qAction)
    /\ key \in DOMAIN Q

\* C11: in every reachable table no two distinct keys stand for (state,
\* action) pairs that one of the 8 board symmetries maps to each other.
C11_OneKeyPerClass ==
    \A k1 \in DOMAIN Q : \A k2 \in DOMAIN Q : SameClass(k1, k2) => k1 = k2

\* C12: when policy(game) does not explore, the actions it may return are
\* exactly the legal actions whose value is within 1e-4 of the largest value
\* of a legal action.
C12_TieSet ==
    (player = currentPlayer /\ EmptyCells(state) # {}) =>
        \A random \in RandomInputs :
            ~Less(random, epsilon) => policyReturns(null, random) = TieSet

\* C13: policy(game) with no horizon raises MisalignedPlayerError exactly
\* when the agent's token differs from game.currentPlayer, also when no legal
\* action is left; policy(game, h) never raises it; and a call that is not
\* misaligned raises InvalidActionError when the list of legal actions it
\* gets from the game is empty.
C13_PolicyRaises ==
    [][called' = "policy" =>
         \A horizon \in HorizonInputs : \A random \in RandomInputs :
            LET misaligned == horizon = null /\ player # currentPlayer
            IN  \/ /\ (error' = "MisalignedPlayerError") <=> misaligned
                   /\ (~misaligned /\ Len(getValidActions(horizon)) = 0)
                         => error' = "InvalidActionError"
                \/ ~policy(horizon, random)]_vars

\* policy(game) has raised MisalignedPlayerError on a full board.
C13_Witness ==
    /\ called = "policy"
    /\ error = "MisalignedPlayerError"
    /\ Full(state)

\* C14: with epsilon = 0 and one legal action whose value exceeds the value
\* of every other legal action by more than the tolerance, policy(game)
\* returns that action whatever Math.random() gives.
C14_ClearBestReturned ==
    (epsilon = Zero /\ player = currentPlayer /\ ClearBest # {}) =>
        \A random \in RandomInputs : policyReturns(null, random) = ClearBest

\* policy() has returned the one action whose stored value stands out among
\* three or more legal actions.
C14_Witness ==
    /\ called = "policy"
    /\ error = ""
    /\ epsilon = Zero
    /\ player = currentPlayer
    /\ Cardinality(EmptyCells(state)) >= 3
    /\ DOMAIN Q # {}
    /\ ClearBest = {ret}

\* C15: a policy() call, with the getKey() lookups it makes, leaves Q and
\* countQ as they were, also when it looks up a key that is not in the
\* table; the table changes only inside learn().
C15_TableFrame ==
    [][/\ called' = "policy" => (Q' = Q /\ countQ' = countQ)
       /\ (Q' # Q \/ countQ' # countQ) => called' = "learn"]_vars

\* policy() has returned an action whose key is not in a table that holds
\* other keys.
C15_Witness ==
    /\ called = "policy"
    /\ error = ""
    /\ Q # emptyQ
    /\ getKey(state, ret) \notin DOMAIN Q

\* C16: no step of a session (a move, a policy call, a step of learn, a
\* change of the hyperparameters, the draw of the sides, a reset) removes a
\* key from Q or countQ, and reset() leaves both tables as they were.
C16_KeysOnlyGrow ==
    [][/\ DOMAIN Q \subseteq DOMAIN Q'
       /\ DOMAIN countQ \subseteq DOMAIN countQ'
       /\ called' = "reset" => (Q' = Q /\ countQ' = countQ)]_vars

\* The game has been reset while the table held the keys of an episode.
C16_Witness ==
    /\ called = "reset"
    /\ Cardinality(DOMAIN Q) >= 3
    /\ DOMAIN countQ = DOMAIN Q

\* What a reset() step leaves behind.
C17_ResetEffect ==
    called' = "reset" =>
        /\ error' = ""
        /\ \A c \in 0..8 : state'[c + 1] = nll
        /\ stateHistory' = <<state'>>
        /\ actionHistory' = <<>>
        /\ currentPlayer' = "X"

\* Right after a reset() no move to one of the nine cells would be refused.
C17_FirstMoveAccepted ==
    called = "reset" => \A index \in 0..8 : ~moveRaises(index)

\* C17: reset(), from any state (mid-game, won, drawn), gives an all-EMPTY
\* board, a stateHistory of that one snapshot, an empty actionHistory and
\* currentPlayer 'X', and every first move is accepted after it.
C17_Reset == []C17_FirstMoveAccepted /\ [][C17_ResetEffect]_vars

\* reset() has just run and left a fresh game.
C17_Witness ==
    /\ called = "reset"
    /\ error = ""
    /\ state = emptyBoard
    /\ stateHistory = <<emptyBoard>>
    /\ currentPlayer = "X"

\* C18: with the terminal-only reward and discount 1, the return learn()
\* computes for each ply of the agent at the end of an episode is +1 when the
\* agent's token has won, -1 when the other token has won and 0 on a draw,
\* whoever made the last move.
C18_ReturnIsOutcome ==
    (called = "learn" /\ discount = One) =>
        \A k \in 1..Len(log) :
            log[k].totalReward =
                IF Ruling(state) = player THEN One
                ELSE IF Ruling(state) = "draw" THEN Zero
                ELSE <<0 - 1, 1>>

\* A turn of the loop of learn() is for a ply i of the agent, writes the key
\* of (stateHistory[i], actionHistory[i]), raises its count by one and leaves
\* every other entry of Q and countQ as it was.
C19_OneKeyPerTurn ==
    (called' = "learn" /\ Len(log') = Len(log) + 1) =>
        LET turn == log'[Len(log')]
        IN  /\ turn.i \in AgentPlies
            /\ turn.key = getKey(stateHistory[turn.i + 1], actionHistory[turn.i + 1])
            /\ DOMAIN Q' = DOMAIN Q \cup {turn.key}
            /\ DOMAIN countQ' = DOMAIN countQ \cup {turn.key}
            /\ countQ'[turn.key] =
                  (IF turn.key \in DOMAIN countQ THEN countQ[turn.key] ELSE 0) + 1
            /\ \A x \in DOMAIN Q \ {turn.key} : Q'[x] = Q[x]
            /\ \A x \in DOMAIN countQ \ {turn.key} : countQ'[x] = countQ[x]

\* When learn() has ended an episode its loop has taken the plies of the
\* agent once each, from the last back to the first, under distinct keys.
C19_AgentPliesBackward ==
    (called = "learn" /\ pc = "idle" /\ Ruling(state) # "") =>
        /\ Len(log) = Cardinality(AgentPlies)
        /\ \A k \in 1..Len(log) :
              /\ log[k].i \in AgentPlies
              /\ \A i \in AgentPlies :
                    (i > log[k].i) <=> (\E m \in 1..(k - 1) : log[m].i = i)
        /\ \A k \in 1..Len(log) : \A m \in 1..Len(log) :
              log[k].key = log[m].key => k = m

\* C19: the terminal update of the Monte-Carlo learner touches exactly the
\* keys of (stateHistory[i], actionHistory[i]) for the plies i of the agent's
\* token (even for 'X', odd for 'O'), each once with its count raised by
\* one, from the agent's last ply back to its first, and leaves every other
\* entry, those of the opponent's plies included, as it was.
C19_AgentKeysOnly == []C19_AgentPliesBackward /\ [][C19_OneKeyPerTurn]_vars

\* learn() has ended an episode of three or more plies of the agent, one of
\* them under a key that an earlier episode had written.
C19_Witness ==
    /\ called = "learn"
    /\ pc = "idle"
    /\ Len(log) >= 3
    /\ \E k \in 1..Len(log) : log[k].n = 2

\* C20: after the returns g_1..g_n have arrived for a key, the value stored
\* under it is (g_1 + ... + g_n) / n and the count is n, whatever their
\* order and whatever defaultQ.
C20_MeanOfReturns ==
    log # <<>> =>
        LET k == hash(emptyBoard, 0)
        IN  /\ DOMAIN Q = {k}
            /\ DOMAIN countQ = {k}
            /\ countQ[k] = Len(log)
            /\ Q[k] = Over(SumOf(log), <<Len(log), 1>>)

\* Three returns, not all the same, have been averaged by an agent whose
\* defaultQ is not 0.
C20_Witness ==
    /\ Len(log) >= 3
    /\ defaultQ # Zero
    /\ \E k \in 1..Len(log) : log[k] # log[1]

\* C21: when QLearningAgent.learn has run on a finished episode of p plies,
\* every ply 0..p-1 has had exactly one update, made for the player who
\* moved at that ply and under the key of (stateHistory[i],
\* actionHistory[i]); the last ply of each player by the terminal rule and
\* every earlier one by the one-step rule.
C21_EveryPlyOnce ==
    (called = "learn" /\ pc = "idle" /\ Ruling(state) # "") =>
        /\ \A i \in 0..(Len(actionHistory) - 1) :
              Cardinality({k \in 1..Len(log) : log[k].i = i}) = 1
        /\ \A k \in 1..Len(log) :
              /\ log[k].i \in 0..(Len(actionHistory) - 1)
              /\ log[k].player = mover(log[k].i)
              /\ SameClass(hash(stateHistory[log[k].i + 1],
                                actionHistory[log[k].i + 1]), log[k].key)
              /\ log[k].rule = IF log[k].i >= Len(actionHistory) - 2
                               THEN "terminal" ELSE "step"

\* C22: an update of an intermediate ply i uses the reward of the historical
\* state stateHistory[i + 2], which is 0 under terminalOnly because that
\* state is not final, and the value of a greedy action among the legal
\* actions of stateHistory[i + 2]: the key of ply i becomes
\* oldQ + alpha * (0 + discount * Q(s_{i+2}, a*) - oldQ), so a reward that is
\* not 0 enters the table only in a terminal update.
C22_StepTarget ==
    [][(called' = "learn" /\ Len(log') = Len(log) + 1
           /\ log'[Len(log')].rule = "step") =>
         LET turn == log'[Len(log')]
             successor == stateHistory[turn.i + 3]
             values == {storedQ(getKey(successor, a)) : a \in EmptyCells(successor)}
         IN  /\ turn.reward = Zero
             /\ turn.futureQ \in values
             /\ \A v \in values : Less(Minus(v, tolerance), turn.futureQ)
             /\ turn.newQ = stepValue(turn.oldQ, Zero, turn.futureQ)
             /\ Q'[turn.key] = turn.newQ]_vars

\* C23: when QLearningAgent.learn is over, after a win or after a draw,
\* epsilon is what it was before the call; the forced value -1 is there only
\* while learn runs, and no policy() call of the driver finds it.
C23_EpsilonRestored ==
    /\ (called = "learn" /\ pc # "updateQ" /\ Ruling(state) # "")
          => epsilon = storeEpsilon
    /\ pc # "updateQ" => ~Less(epsilon, Zero)

\* C24: the terminal update of the last ply of a player stores
\* Q + alpha * (terminal_reward - Q) under its key, where the reward is that
\* of the final board for that player and no value of a successor enters;
\* with alpha = 0.5 and a key the table does not hold yet, the key of the
\* last ply of the winner ends at 0.5.
C24_TerminalRule ==
    [][(called' = "learn" /\ Len(log') = Len(log) + 1
           /\ log'[Len(log')].rule = "terminal") =>
         LET turn == log'[Len(log')]
             reward == IF Ruling(state) = turn.player THEN One
                       ELSE IF Ruling(state) = "draw" THEN Zero
                       ELSE <<0 - 1, 1>>
         IN  /\ turn.oldQ = storedQ(turn.key)
             /\ Q'[turn.key] =
                    Plus(turn.oldQ, Times(alpha, Minus(reward, turn.oldQ)))
             /\ (alpha = <<1, 2>> /\ turn.key \notin DOMAIN Q /\ reward = One)
                    => Q'[turn.key] = <<1, 2>>]_vars

\* learn() has ended the first episode of an agent with alpha 0.5 and
\* discount 1, and the key of the winner's last ply holds 0.5.
C24_Witness ==
    /\ called = "learn"
    /\ pc = "idle"
    /\ error = ""
    /\ episodes = 0
    /\ alpha = <<1, 2>>
    /\ discount = One
    /\ \E k \in 1..Len(log) :
          /\ log[k].rule = "terminal"
          /\ log[k].player = Ruling(state)
          /\ log[k].oldQ = Zero
          /\ Q[log[k].key] = <<1, 2>>

\* C25: the batch of updates learn() makes at the end of an episode leaves
\* the table an online learner would leave: no update of the batch fails,
\* and each update of an intermediate ply i stores a value that the same
\* update, made as soon as stateHistory[i + 2] existed, could have stored.
C25_BatchIsOnline ==
    [][(called' = "learn" /\ pc = "updateQ") =>
         /\ error' = ""
         /\ (Len(log') = Len(log) + 1 /\ log'[Len(log')].rule = "step")
               => Q'[log'[Len(log')].key] \in OnlineValues(log'[Len(log')].i)]_vars

\* C26: in a session of the driver, learn() is invoked only when
\* actionHistory holds two plies or more, policy() is invoked for the live
\* board only when the token of the agent is the one to move, and no call
\* raises MisalignedPlayerError, also after a reset has changed the token of
\* the agent.
C26_DriverKeepsTurns ==
    /\ pc \in {"learn", "learnEnd"} => Len(actionHistory) >= 2
    /\ called = "learn" => Len(actionHistory) >= 2
    /\ pc = "policy" => player = currentPlayer
    /\ error # "MisalignedPlayerError"

\* After a reset that gave the agent 'X', the computer has opened, the user
\* has answered and learn() has been invoked on these two plies.
C26_Witness ==
    /\ called = "learn"
    /\ episodes >= 1
    /\ player = "X"
    /\ ret = actionHistory[1]
    /\ Len(actionHistory) = 2

\* C27: in every episode of a session learn() is invoked exactly once on a
\* finished board, whether the move of the user or the move of the computer
\* ended the game: never while the game is open, once by the time the
\* handler that ended the game is over (only then can a reset follow), and
\* not again in that episode.
C27_OneTerminalLearn ==
    /\ learnt <= 1
    /\ Ruling(state) = "" => learnt = 0
    /\ (Ruling(state) # "" /\ pc \in {"idle", "updateQ"}) => learnt = 1
    /\ pc = "sides" => learnt = 0

\* The move of the computer has ended the game, and the handler is over
\* after its one learn() call on the finished board.
C27_Witness ==
    /\ pc = "idle"
    /\ called = "learn"
    /\ Ruling(state) = player
    /\ learnt = 1

\* C28: the reward buffer of the Monte-Carlo learner is empty when a
\* learn() call on a finished board is over, so it is empty at the start of
\* every episode of a session and holds rewards of the running episode only.
C28_BufferPerEpisode ==
    /\ (called = "learn" /\ pc = "idle" /\ Ruling(state) # "") => rewards = <<>>
    /\ actionHistory = <<>> => rewards = <<>>
    /\ Len(rewards) <= Len(actionHistory)

\* learn() has ended the second episode of a session and left the buffer
\* empty.
C28_Witness ==
    /\ called = "learn"
    /\ pc = "idle"
    /\ Ruling(state) # ""
    /\ episodes >= 1
    /\ Len(log) >= 3
    /\ rewards = <<>>

\* C29: a learn() call of a QLearningAgent on a board that is not finished
\* leaves Q, countQ and epsilon as they were, and no call ever writes a
\* visit count: countQ of a Q-learning agent is empty for ever.
C29_NoCounts ==
    [](countQ = emptyQ)
        /\ [][(called' = "learn" /\ Ruling(state) = "") =>
                 (Q' = Q /\ countQ' = countQ /\ epsilon' = epsilon)]_vars

\* learn() has been called on an open game by an agent whose table holds the
\* updates of an earlier episode, and no count.
C29_Witness ==
    /\ called = "learn"
    /\ Ruling(state) = ""
    /\ episodes >= 1
    /\ Cardinality(DOMAIN Q) >= 5
    /\ countQ = emptyQ

\* C30: in every episode the boards at two distinct indices of stateHistory
\* differ and no quarter turn and no mirror maps one to the other; so the
\* keys of two distinct plies differ, and a learn() call writes no key
\* twice.
C30_NoStateTwice ==
    /\ \A i \in 1..Len(stateHistory) : \A j \in 1..Len(stateHistory) :
          i < j => \A t \in 0..7 : Sym(t, stateHistory[i]) # stateHistory[j]
    /\ Cardinality({getKey(stateHistory[i], actionHistory[i]) :
                       i \in 1..Len(actionHistory)}) = Len(actionHistory)
    /\ called = "learn" =>
          \A k \in 1..Len(log) : \A m \in 1..Len(log) :
              log[k].key = log[m].key => k = m

\* learn() has updated every ply of an episode of seven plies or more, each
\* under a key of its own, in a table that held keys of an earlier episode.
C30_Witness ==
    /\ called = "learn"
    /\ pc = "idle"
    /\ error = ""
    /\ episodes >= 1
    /\ Len(actionHistory) >= 7
    /\ Len(log) = Len(actionHistory)
    /\ Cardinality({log[k].key : k \in 1..Len(log)}) = Len(actionHistory)

\* C31: QLearningAgent.learn returns without an error on every finished
\* episode, a draw or a win at the ninth ply on a board without an EMPTY
\* cell included; no policy() call inside updateQ raises InvalidActionError.
C31_LearnCompletes ==
    called = "learn" => error = ""

\* C32: once getKey(S, A) returns a key that is in the table, it returns the
\* same key after every later write: no write of the learners moves a pair
\* of the class to another key. Every call and every write of one step is
\* compared with the table before and after it (getKey reads nothing but
\* the table, so a step that leaves the table alone moves no key).
C32_KeyNeverMoves ==
    [][\/ Q' = Q
       \/ DOMAIN Q = {}
       \/ \A p \in KeyInputs :
             LET before == getKey(p[1], p[2])
             IN  before \in DOMAIN Q => getKey(p[1], p[2])' = before]_vars

\* A pair is resolved to the key of one of its rotations while the table
\* also holds another key of its class, written after the first.
C32_Witness ==
    /\ called = "getKey"
    /\ key \in DOMAIN Q
    /\ key # LiteralKey(qState, qAction)
    /\ Cardinality(DOMAIN Q) >= 2

\* C33: with defaultQ = 0, the discount and the learning rate in [0, 1] and
\* the rewards of terminalOnly, every value in the Q-learning table lies in
\* [-1, 1].
C33_ValuesInRange ==
    (defaultQ = Zero /\ inUnitRange(discount) /\ inUnitRange(alpha)) =>
        \A k \in DOMAIN Q :
            ~Less(Q[k], <<0 - 1, 1>>) /\ ~Less(One, Q[k])

\* C34: while the backward pass of MonteCarloAgent.learn runs under the
\* driver, the buffer holds one reward for each ply the agent played, the
\* index j of the reward and the index i of the ply move together (the
\* agent's k-th ply is paired with rewards[k - 1], the first with
\* rewards[0]) and j never leaves the buffer.
C34_RewardPerPly ==
    pc = "loop" =>
        LET start == IF player = "X" THEN 0 ELSE 1
        IN  /\ Len(rewards) = Cardinality(AgentPlies)
            /\ loopI = start + 2 * loopJ
            /\ loopI >= 0 => (loopI \in AgentPlies /\ loopJ + 1 \in DOMAIN rewards)

\* The pass has reached the first ply of an agent that played 'X' and made
\* the last move of the second episode.
C34_Witness ==
    /\ pc = "loop"
    /\ player = "X"
    /\ episodes >= 1
    /\ Len(actionHistory) % 2 = 1
    /\ loopI = 0
    /\ loopJ = 0
    /\ Len(rewards) >= 3

\* C35: a move() call that raises InvalidActionError leaves the board,
\* currentPlayer, stateHistory and actionHistory as they were.
C35_RejectedMoveKeepsGame ==
    [][(called' = "move" /\ error' = "InvalidActionError") =>
          UNCHANGED <<state, currentPlayer, stateHistory, actionHistory>>]_vars

\* A move has been rejected on a finished game that still has an EMPTY cell.
C35_Witness ==
    /\ called = "move"
    /\ error = "InvalidActionError"
    /\ checkTermination(state) # ""
    /\ \E c \in 1..9 : state[c] = nll

\* The plies of an episode and the outcome the code finds after them.
C36_PliesBounded ==
    /\ Len(actionHistory) <= 9
    /\ Len(actionHistory) = 9 => checkTermination(state) # ""
    /\ Len(actionHistory) < 5 => checkTermination(state) = ""

\* A move() on a finished game.
C36_FinishedRejects ==
    (checkTermination(state) # "" /\ called' = "move") =>
        (error' = "InvalidActionError" /\ UNCHANGED gameVars)

\* C36: an episode has at most 9 plies; after the ninth the outcome is not
\* empty; before the fifth it is empty; and while the outcome is not empty
\* every move() is rejected, so only reset() goes on.
C36_EpisodeEnds == []C36_PliesBounded /\ [][C36_FinishedRejects]_vars

\* A move has been rejected after the ninth ply of an episode.
C36_Witness ==
    /\ Len(actionHistory) = 9
    /\ checkTermination(state) # ""
    /\ called = "move"
    /\ error = "InvalidActionError"

\* C37: an agent constructed with the default epsilon holds 0.1 in its
\* epsilon field, and keeps it through every call that is not an update of
\* the hyperparameters, so its policy explores when Math.random() < 0.1.
C37_EpsilonHeld ==
    /\ epsilon = <<1, 10>>
    /\ [][(epsilon = <<1, 10>> /\ called' # "updateParams") =>
             epsilon' = <<1, 10>>]_vars

\* C38: on a board and on the one-hot boards of its legal actions
\* rot90(rot90(s, a), b) is rot90(s, (a + b) mod 4), four quarter turns and
\* two mirrors are the identity, and under each of the 8 transforms the
\* index read from the transformed one-hot board is the cell the action
\* moved to: transforming the board after a move is moving at that index on
\* the transformed board.
C38_SquareGroup ==
    LET actions == {c \in 0..8 : board[c + 1] = nll}
        hots == {board} \cup {toActionArray(c) : c \in actions}
    IN  /\ \A s \in hots :
              /\ \A a \in 0..MaxTurns : \A b \in 0..MaxTurns :
                    rot90(rot90(s, a), b) = rot90(s, (a + b) % 4)
              /\ rot90(rot90(rot90(rot90(s, 1), 1), 1), 1) = s
              /\ mirror(mirror(s)) = s
        /\ \A t \in 0..7 :
              LET turned == Sym(t, board)
              IN  \A c \in actions :
                      LET hot == Sym(t, toActionArray(c))
                          index == toActionIndex(hot)
                      IN  /\ hot = toActionArray(index)
                          /\ \A token \in Tokens :
                                Sym(t, [board EXCEPT ![c + 1] = token]) =
                                    [turned EXCEPT ![index + 1] = token]

\* rot90 has returned a board that no quarter turn and no mirror maps to
\* itself and that has an EMPTY cell to move at.
C38_Witness ==
    /\ called = "rot90"
    /\ \A t \in 1..7 : Sym(t, board) # board
    /\ \E c \in 1..9 : board[c] = nll

====
